---- MODULE Spec2Model ----
(***************************************************************************)
(* A model of analyze_quiz.py: parse_results (the run segmenter),          *)
(* calculate_score / calculate_run_scores (the scorer),                    *)
(* analyze_consistency, and main (the report).                             *)
(*                                                                         *)
(* Python values are represented as follows.                               *)
(*   str            a sequence of one-character strings                    *)
(*   None / a str   <<>> / <<s>>   (written None and Str(s))               *)
(*   dict (run)     a function from its keys to its values                 *)
(*   dict (models)  a sequence of [key, val] entries, in insertion order   *)
(*   list, tuple    a sequence                                             *)
(***************************************************************************)
EXTENDS Integers, Sequences, FiniteSets, TLC

\* ------------------------------------------------------------------ bounds

\* Rows the csv reader yields before the end of the file.
MaxRows == 4
\* Rows of the wraparound streams (one respondent restarting the quiz).
MaxWrapRows == 6
\* The largest key of a run handed to calculate_run_scores on its own.
MaxKey == 11
\* The longest list of runs handed to analyze_consistency on its own.
MaxRuns == 3

\* ----------------------------------------------------------------- strings

AGREE == <<"A", "g", "r", "e", "e">>
MAYBE == <<"M", "a", "y", "b", "e">>
DISAGREE == <<"D", "i", "s", "a", "g", "r", "e", "e">>
\* A label outside the vocabulary of calculate_score.
UNSURE == <<"U", "n", "s", "u", "r", "e">>

None == <<>>
Str(s) == <<s>>

Whitespace == {" ", "\t"}

RECURSIVE lstrip(_)
lstrip(s) ==
    IF s # <<>> /\ Head(s) \in Whitespace THEN lstrip(Tail(s)) ELSE s

RECURSIVE rstrip(_)
rstrip(s) ==
    IF s # <<>> /\ s[Len(s)] \in Whitespace
    THEN rstrip(SubSeq(s, 1, Len(s) - 1))
    ELSE s

\* str.strip()
strip(s) == rstrip(lstrip(s))

Digits == {"0", "1", "2", "3", "4", "5", "6", "7", "8", "9"}

DigitVal(c) ==
    CASE c = "0" -> 0 [] c = "1" -> 1 [] c = "2" -> 2 [] c = "3" -> 3
      [] c = "4" -> 4 [] c = "5" -> 5 [] c = "6" -> 6 [] c = "7" -> 7
      [] c = "8" -> 8 [] c = "9" -> 9

RECURSIVE DecimalVal(_)
DecimalVal(s) ==
    IF s = <<>> THEN 0
    ELSE 10 * DecimalVal(SubSeq(s, 1, Len(s) - 1)) + DigitVal(s[Len(s)])

AllDigits(s) == s # <<>> /\ \A i \in 1..Len(s) : s[i] \in Digits

\* int(s) of a stripped str: an optional sign and decimal digits; anything
\* else raises ValueError (ok = FALSE).
int(s) ==
    IF AllDigits(s) THEN [ok |-> TRUE, val |-> DecimalVal(s)]
    ELSE IF s # <<>> /\ Head(s) = "-" /\ AllDigits(Tail(s))
    THEN [ok |-> TRUE, val |-> 0 - DecimalVal(Tail(s))]
    ELSE IF s # <<>> /\ Head(s) = "+" /\ AllDigits(Tail(s))
    THEN [ok |-> TRUE, val |-> DecimalVal(Tail(s))]
    ELSE [ok |-> FALSE, val |-> 0]

\* ------------------------------------------------------------------- dicts

EmptyDict == <<>>

Keys(d) == [i \in 1..Len(d) |-> d[i].key]

HasKey(d, k) == \E i \in 1..Len(d) : d[i].key = k

IndexOf(d, k) == CHOOSE i \in 1..Len(d) : d[i].key = k

\* d[k] = v on an insertion-ordered dict.
DictSet(d, k, v) ==
    IF HasKey(d, k)
    THEN [d EXCEPT ![IndexOf(d, k)] = [key |-> k, val |-> v]]
    ELSE Append(d, [key |-> k, val |-> v])

\* The value goes to the front of the list, a new key to the front of the dict.
DefaultDictPrepend(d, k, v) ==
    IF HasKey(d, k)
    THEN [d EXCEPT ![IndexOf(d, k)].val = <<v>> \o @]
    ELSE <<[key |-> k, val |-> <<v>>]>> \o d

\* d[k].append(v) on a defaultdict(list): a missing key is created with [].
DefaultDictAppend(d, k, v) ==
    IF HasKey(d, k)
    THEN [d EXCEPT ![IndexOf(d, k)].val = Append(@, v)]
    ELSE Append(d, [key |-> k, val |-> <<v>>])

\* The answer is stored under the question's zero-based index.
RunSetZeroBased(run, q, answer) ==
    [k \in DOMAIN run \cup {q - 1} |-> IF k = q - 1 THEN answer ELSE run[k]]

\* run[q] = answer on a run (a function from question numbers to answers).
RunSet(run, q, answer) ==
    [k \in DOMAIN run \cup {q} |-> IF k = q THEN answer ELSE run[k]]

EmptyRun == [k \in {} |-> <<>>]

\* ------------------------------------------------------------------ scorer

\* dict.get(q, default) on a run.
RunGet(run, q, default) == IF q \in DOMAIN run THEN run[q] ELSE default

\* An absent question reads as the scorer's default, "Maybe".
RunGetOptMaybe(run, q) == IF q \in DOMAIN run THEN Str(run[q]) ELSE Str(MAYBE)

\* dict.get(q) on a run: None when q is absent.
RunGetOpt(run, q) == IF q \in DOMAIN run THEN Str(run[q]) ELSE None

\* Line 42: scores = {'Agree': 20, 'Maybe': 10, 'Disagree': 0}
ScoreTable(label) ==
    CASE label = AGREE -> 20 [] label = MAYBE -> 10 [] label = DISAGREE -> 0

\* Line 43: scores.get(answer, 0)
calculate_score(answer) ==
    IF answer \in {AGREE, MAYBE, DISAGREE} THEN ScoreTable(answer) ELSE 0

\* An absent question is scored as no answer at all: run.get(q).
ScoredAnswerNoDefault(run, q) == RunGet(run, q, <<>>)

\* The answer calculate_run_scores scores at q: run.get(q, 'Maybe').
ScoredAnswer(run, q) == RunGet(run, q, MAYBE)

\* sum(calculate_score(run.get(q, 'Maybe')) for q in range(lo, hi))
RECURSIVE SumScores(_, _, _)
SumScores(run, lo, hi) ==
    IF lo >= hi THEN 0
    ELSE calculate_score(ScoredAnswer(run, lo)) + SumScores(run, lo + 1, hi)

\* Lines 46-50.
calculate_run_scores(run) == <<SumScores(run, 1, 6), SumScores(run, 6, 11)>>

\* ----------------------------------------------------- analyze_consistency

\* Line 61: answers = [run.get(q) for run in runs]
AnswersAt(runs, q) == [i \in 1..Len(runs) |-> RunGetOpt(runs[i], q)]

\* set(xs) of a list.
SetOf(xs) == { xs[i] : i \in 1..Len(xs) }

\* Lines 60-64: the loop over range(q, hi), with its two accumulators.
RECURSIVE ConsistencyLoop(_, _, _, _, _)
ConsistencyLoop(runs, q, hi, differences, varying_questions) ==
    IF q >= hi THEN <<differences = 0, differences, varying_questions>>
    ELSE LET answers == AnswersAt(runs, q)
         IN  IF Cardinality(SetOf(answers)) > 1
             THEN ConsistencyLoop(runs, q + 1, hi, differences + 1,
                                  Append(varying_questions, <<q, answers>>))
             ELSE ConsistencyLoop(runs, q + 1, hi, differences, varying_questions)

\* Lines 53-66.
analyze_consistency(runs) ==
    IF Len(runs) <= 1 THEN <<TRUE, 0, <<>>>>
    ELSE ConsistencyLoop(runs, 1, 11, 0, <<>>)

\* -------------------------------------------------------------- main: parts

\* Lines 85-87: answer -> number of runs giving it.
AnswerCounts(answers) ==
    [a \in SetOf(answers) |-> Cardinality({ i \in 1..Len(answers) : answers[i] = a })]

\* Line 88: sorted(answer_counts.items()) compares the answers; None and a
\* str do not compare, and sorting raises TypeError.
SortedRaises(answers) ==
    None \in SetOf(answers) /\ \E a \in SetOf(answers) : a # None

\* Lines 84-89: the lines of the varying questions, from the j-th on.
RECURSIVE PrintVarying(_, _, _)
PrintVarying(varying, j, o) ==
    IF j > Len(varying) THEN [raised |-> FALSE, out |-> o]
    ELSE IF SortedRaises(varying[j][2]) THEN [raised |-> TRUE, out |-> o]
    ELSE PrintVarying(varying, j + 1,
            Append(o, [line |-> "question", q_num |-> varying[j][1],
                       counts |-> AnswerCounts(varying[j][2])]))

\* Lines 78-89: the loop over models.items(), from the i-th entry on.
RECURSIVE ConsistencySection(_, _, _, _)
ConsistencySection(ms, i, cr, o) ==
    IF i > Len(ms) THEN [raised |-> FALSE, cr |-> cr, out |-> o]
    ELSE LET res == analyze_consistency(ms[i].val)
             cr1 == DictSet(cr, ms[i].key, res)
             o1 == Append(o, [line |-> "status", model |-> ms[i].key,
                              is_consistent |-> res[1], diff_count |-> res[2]])
             pv == PrintVarying(res[3], 1, o1)
         IN  IF pv.raised THEN [raised |-> TRUE, cr |-> cr1, out |-> pv.out]
             ELSE ConsistencySection(ms, i + 1, cr1, pv.out)

\* Where sorted() puts x in an already sorted list: after every element
\* whose key is not greater (the sort is stable).
RECURSIVE StableInsert(_, _)
StableInsert(xs, x) ==
    IF xs = <<>> THEN <<x>>
    ELSE IF xs[Len(xs)].val[2] <= x.val[2] THEN Append(xs, x)
    ELSE Append(StableInsert(SubSeq(xs, 1, Len(xs) - 1), x), xs[Len(xs)])

\* Line 92: sorted(consistency_results.items(), key=lambda x: x[1][1])
RECURSIVE sorted_by_consistency(_)
sorted_by_consistency(items) ==
    IF items = <<>> THEN <<>>
    ELSE StableInsert(sorted_by_consistency(SubSeq(items, 1, Len(items) - 1)),
                      items[Len(items)])

RECURSIVE SumSeq(_)
SumSeq(xs) == IF xs = <<>> THEN 0 ELSE Head(xs) + SumSeq(Tail(xs))

\* round(n / d) for n >= 0, d > 0: to the nearest integer, a half to even.
round(n, d) ==
    LET q == n \div d
        r == n % d
    IN  IF 2 * r < d THEN q
        ELSE IF 2 * r > d THEN q + 1
        ELSE IF q % 2 = 0 THEN q ELSE q + 1

\* Lines 105-120: the loop over models.items(), from the i-th entry on.
RECURSIVE ScoreSection(_, _, _, _)
ScoreSection(ms, i, sc, o) ==
    IF i > Len(ms) THEN [raised |-> FALSE, scores |-> sc, out |-> o]
    ELSE LET runs == ms[i].val
             xy == [k \in 1..Len(runs) |-> calculate_run_scores(runs[k])]
             all_x == [k \in 1..Len(runs) |-> xy[k][1]]
             all_y == [k \in 1..Len(runs) |-> xy[k][2]]
             o1 == Append(o, [line |-> "runs", model |-> ms[i].key, xy |-> xy])
         IN  IF Len(runs) = 0 THEN [raised |-> TRUE, scores |-> sc, out |-> o1]
             ELSE LET avg == <<round(SumSeq(all_x), Len(all_x)),
                               round(SumSeq(all_y), Len(all_y))>>
                  IN  ScoreSection(ms, i + 1,
                         DictSet(sc, ms[i].key, [runs |-> xy, avg |-> avg]),
                         Append(o1, [line |-> "average", model |-> ms[i].key,
                                     x |-> avg[1], y |-> avg[2]]))

\* -------------------------------------------------------------------- rows

Row3(m, q, a) == <<m, q, a>>

\* Well-formed rows: respondent, question number, answer label.
Rows ==
    { Row3(m, q, a) : m \in {<<"A">>, <<"B">>},
                      q \in {<<"1">>, <<"2">>},
                      a \in {AGREE, DISAGREE} }
    \cup { Row3(<<"A">>, <<"1", "1">>, AGREE) }
    \cup { Row3(<<" ", "A">>, <<"1", " ">>, <<" ", "A", "g", "r", "e", "e">>) }

\* Three fields whose second is no number.
NonNumericRows == { Row3(<<"A">>, <<"x">>, AGREE) }

\* Rows whose field count is not 3 (one has a non-numeric second field).
MalformedRows == { <<<<"A">>, <<"x">>>>, <<<<"A">>, <<"1">>, AGREE, AGREE>> }

AllRows == Rows \cup NonNumericRows \cup MalformedRows

\* The streams of one respondent going round the quiz, plus one other
\* respondent.
WrapRows ==
    { Row3(<<"A">>, <<"1">>, AGREE), Row3(<<"A">>, <<"1">>, DISAGREE),
      Row3(<<"A">>, <<"2">>, AGREE), Row3(<<"A">>, <<"3">>, AGREE),
      Row3(<<"B">>, <<"1">>, AGREE),
      Row3(<<"A">>, <<"x">>, AGREE), <<<<"A">>, <<"x">>>> }

NoRow == <<>>

NoException == "none"

\* ------------------------------------------------------------------- state

VARIABLES
    pc,             \* where the program is
    exc,            \* the exception that ended the program, if any
    nread,          \* rows read from the csv reader so far
    row,            \* parse_results: the loop variable
    models,         \* parse_results: model -> list of runs
    current_run,    \* parse_results
    current_model,  \* parse_results
    hist,           \* history: the records (model, q_num, answer) of line 22
    current_src,    \* history: indexes in hist of the records in current_run
    models_src,     \* history: as models, each run replaced by its indexes
    consistency_results,  \* main
    most_consistent,      \* main
    least_consistent,     \* main
    scores,         \* main: model -> [runs |-> list of (x, y), avg |-> (x, y)]
    out,            \* main: the sections printed so far
    arg,            \* the argument of a function called on its own
    ret             \* its return value

vars ==
    <<pc, exc, nread, row, models, current_run, current_model, hist, current_src,
      models_src, consistency_results, most_consistent, least_consistent,
      scores, out, arg, ret>>

parse_vars == <<models, current_run, current_model>>
hist_vars == <<hist, current_src, models_src>>
main_vars == <<consistency_results, most_consistent, least_consistent, scores, out>>
call_vars == <<arg, ret>>

\* ------------------------------------------------------------ parse_results

\* A new run only when the respondent changes.
NewRunOnModelChange(cur_model, cur_run, model, q_num) == cur_model # model

\* Line 25: the record starts a new run.
NewRun(cur_model, cur_run, model, q_num) ==
    cur_model # model \/ (q_num = 1 /\ cur_run # EmptyRun)

\* The run is appended under the respondent of the incoming record.
FlushKeyIncoming(cur_model, model) == model

\* Line 27: the key the finished run is appended under.
FlushKey(cur_model, model) == cur_model

\* The run is appended whether it is empty or not.
FlushAlways(d, k, run) == DefaultDictAppend(d, k, run)

\* Lines 26-27 and 34-35: append the run when it is not empty.
Flush(d, k, run) ==
    IF run # EmptyRun THEN DefaultDictAppend(d, k, run) ELSE d

\* Line 20: the row is skipped.
Skipped(r) == Len(r) # 3

ParseInit ==
    /\ pc = "parse"
    /\ exc = NoException
    /\ nread = 0
    /\ row = NoRow
    /\ models = EmptyDict
    /\ current_run = EmptyRun
    /\ current_model = None
    /\ hist = <<>>
    /\ current_src = <<>>
    /\ models_src = EmptyDict
    /\ consistency_results = EmptyDict
    /\ most_consistent = None
    /\ least_consistent = None
    /\ scores = EmptyDict
    /\ out = <<>>
    /\ arg = <<>>
    /\ ret = <<>>

\* A row whose field count is not 3 ends the current run.
SkipRowEndsRun(R, max) ==
    /\ pc = "parse"
    /\ nread < max
    /\ \E r \in R :
        /\ Len(r) # 3
        /\ row' = r
    /\ nread' = nread + 1
    /\ models' = IF current_run # <<>> THEN DefaultDictAppend(models, current_model, current_run) ELSE models
    /\ models_src' = IF current_run # <<>> THEN DefaultDictAppend(models_src, current_model, current_src) ELSE models_src
    /\ current_run' = <<>>
    /\ current_src' = <<>>
    /\ UNCHANGED <<pc, exc, current_model, hist, main_vars, call_vars>>

\* Lines 19-21: a row whose field count is not 3.
SkipRow(R, max) ==
    /\ pc = "parse"
    /\ nread < max
    /\ \E r \in R :
        /\ Skipped(r)
        /\ row' = r
    /\ nread' = nread + 1
    /\ UNCHANGED <<pc, exc, parse_vars, hist_vars, main_vars, call_vars>>

\* The ValueError of int() is caught and the row skipped.
AbortRowCaught(R, max) ==
    /\ pc = "parse"
    /\ nread < max
    /\ \E r \in R :
        /\ Len(r) = 3
        /\ ~int(strip(r[2])).ok
        /\ row' = r
    /\ nread' = nread + 1
    /\ UNCHANGED <<pc, exc, parse_vars, hist_vars, main_vars, call_vars>>

\* Line 22: int() raises ValueError, which nothing catches.
AbortRow(R, max) ==
    /\ pc = "parse"
    /\ nread < max
    /\ \E r \in R :
        /\ ~Skipped(r)
        /\ ~int(strip(r[2])).ok
        /\ row' = r
    /\ nread' = nread + 1
    /\ pc' = "aborted"
    /\ exc' = "ValueError"
    /\ UNCHANGED <<parse_vars, hist_vars, main_vars, call_vars>>

\* Lines 19-31: a row of three fields with a numeric question number.
AcceptRow(R, max) ==
    /\ pc = "parse"
    /\ nread < max
    /\ \E r \in R :
        /\ ~Skipped(r)
        /\ int(strip(r[2])).ok
        /\ row' = r
        /\ LET model == Str(strip(r[1]))
               q_num == int(strip(r[2])).val
               answer == strip(r[3])
               n == Len(hist) + 1
               new == NewRun(current_model, current_run, model, q_num)
               key == FlushKey(current_model, model)
           IN  /\ hist' = Append(hist, [model |-> model, q |-> q_num, answer |-> answer])
               /\ models' = IF new THEN Flush(models, key, current_run) ELSE models
               /\ models_src' =
                    IF new /\ current_run # EmptyRun
                    THEN DefaultDictAppend(models_src, key, current_src)
                    ELSE models_src
               /\ current_model' = IF new THEN model ELSE current_model
               /\ current_run' = RunSet(IF new THEN EmptyRun ELSE current_run, q_num, answer)
               /\ current_src' = Append(IF new THEN <<>> ELSE current_src, n)
    /\ nread' = nread + 1
    /\ UNCHANGED <<pc, exc, main_vars, call_vars>>

\* Lines 33-37: the reader is exhausted; the last run is flushed and the
\* mapping returned.
EndOfFile ==
    /\ pc = "parse"
    /\ models' = Flush(models, current_model, current_run)
    /\ models_src' =
         IF current_run # EmptyRun
         THEN DefaultDictAppend(models_src, current_model, current_src)
         ELSE models_src
    /\ pc' = "parsed"
    /\ UNCHANGED <<exc, nread, row, current_run, current_model, hist, current_src,
                   main_vars, call_vars>>

\* Lines 69-120: main after parse_results has returned.
Main ==
    /\ pc = "parsed"
    /\ \E cs \in {ConsistencySection(models, 1, EmptyDict,
                     <<[line |-> "header", title |-> "CONSISTENCY ANALYSIS"]>>)} :
       \E ranked \in {sorted_by_consistency(cs.cr)} :
           IF cs.raised
           THEN /\ pc' = "failed"
                /\ exc' = "TypeError"
                /\ consistency_results' = cs.cr
                /\ out' = cs.out
                /\ UNCHANGED <<most_consistent, least_consistent, scores>>
           ELSE IF ranked = <<>>
           THEN /\ pc' = "failed"
                /\ exc' = "IndexError"
                /\ consistency_results' = cs.cr
                /\ out' = cs.out
                /\ UNCHANGED <<most_consistent, least_consistent, scores>>
           ELSE \E ss \in {ScoreSection(models, 1, EmptyDict,
                              cs.out \o
                              <<[line |-> "most", model |-> ranked[1].key],
                                [line |-> "least", model |-> ranked[Len(ranked)].key],
                                [line |-> "header", title |-> "SCORE ANALYSIS & LINKS"]>>)} :
                    /\ consistency_results' = cs.cr
                    /\ most_consistent' = ranked[1].key
                    /\ least_consistent' = ranked[Len(ranked)].key
                    /\ scores' = ss.scores
                    /\ out' = ss.out
                    /\ pc' = IF ss.raised THEN "failed" ELSE "done"
                    /\ exc' = IF ss.raised THEN "ZeroDivisionError" ELSE exc
    /\ UNCHANGED <<nread, row, parse_vars, hist_vars, call_vars>>

Next ==
    \/ SkipRow(AllRows, MaxRows)
    \/ AbortRow(AllRows, MaxRows)
    \/ AcceptRow(AllRows, MaxRows)
    \/ EndOfFile
    \/ Main

Spec == ParseInit /\ [][Next]_vars

\* The streams of one respondent going round the quiz.
NextWrap ==
    \/ SkipRow(WrapRows, MaxWrapRows)
    \/ AbortRow(WrapRows, MaxWrapRows)
    \/ AcceptRow(WrapRows, MaxWrapRows)
    \/ EndOfFile
    \/ Main

SpecWrap == ParseInit /\ [][NextWrap]_vars

\* ------------------------------------- calculate_run_scores, on its own

ScoreLabels == {AGREE, MAYBE, DISAGREE, UNSURE}

\* The runs scored: any set of keys in 0..MaxKey, the odd keys answered one
\* label and the even keys another.
ScoreRuns ==
    { [q \in dom |-> IF q % 2 = 1 THEN odd ELSE even] :
        dom \in SUBSET (0..MaxKey), odd \in ScoreLabels, even \in ScoreLabels }

\* Everything but pc, arg and ret is as before parse_results starts.
Idle ==
    /\ exc = NoException
    /\ nread = 0
    /\ row = NoRow
    /\ models = EmptyDict
    /\ current_run = EmptyRun
    /\ current_model = None
    /\ hist = <<>>
    /\ current_src = <<>>
    /\ models_src = EmptyDict
    /\ consistency_results = EmptyDict
    /\ most_consistent = None
    /\ least_consistent = None
    /\ scores = EmptyDict
    /\ out = <<>>

ScoreInit ==
    /\ pc = "call_scores"
    /\ arg \in ScoreRuns
    /\ ret = <<>>
    /\ Idle

CallRunScores ==
    /\ pc = "call_scores"
    /\ ret' = calculate_run_scores(arg)
    /\ pc' = "returned"
    /\ UNCHANGED <<exc, nread, row, parse_vars, hist_vars, main_vars, arg>>

SpecScore == ScoreInit /\ [][CallRunScores]_vars

\* -------------------------------------- analyze_consistency, on its own

\* The runs compared: questions 1 and 10 absent or answered one of two
\* labels, key 11 absent or answered.
ConsistencyRuns ==
    { [q \in dom |-> IF q = 11 THEN AGREE ELSE IF q = 1 THEN a1 ELSE a10] :
        dom \in SUBSET {1, 10, 11}, a1 \in {AGREE, MAYBE}, a10 \in {AGREE, MAYBE} }

RunLists == UNION { [1..n -> ConsistencyRuns] : n \in 0..MaxRuns }

ConsistencyInit ==
    /\ pc = "call_consistency"
    /\ arg \in RunLists
    /\ ret = <<>>
    /\ Idle

CallConsistency ==
    /\ pc = "call_consistency"
    /\ ret' = analyze_consistency(arg)
    /\ pc' = "returned"
    /\ UNCHANGED <<exc, nread, row, parse_vars, hist_vars, main_vars, arg>>

SpecConsistency == ConsistencyInit /\ [][CallConsistency]_vars
\* -------------------------------------------------------------- properties

\* The runs stored so far, as positions <<i, j>>: the j-th run of the i-th
\* respondent of models.
StoredRuns ==
    UNION { { <<i, j>> : j \in 1..Len(models[i].val) } : i \in 1..Len(models) }

\* models_src has the shape of models: the same keys, as many runs each.
SameShape ==
    /\ Len(models_src) = Len(models)
    /\ \A i \in 1..Len(models) :
        /\ models_src[i].key = models[i].key
        /\ Len(models_src[i].val) = Len(models[i].val)

\* The records (indexes in hist) that went into the stored run at p.
SrcOf(p) == models_src[p[1]].val[p[2]]

RunAt(p) == models[p[1]].val[p[2]]

\* ---- C1
\* C1: a run flushed because the respondent changed is stored under the
\* respondent that was current before the record, so every run stored under
\* respondent R was built only from records of R, and each of its answers is
\* the answer of one of those records.
C1_RunsHoldOwnRespondentsAnswers ==
    /\ SameShape
    /\ \A p \in StoredRuns :
        /\ \A k \in 1..Len(SrcOf(p)) : hist[SrcOf(p)[k]].model = models[p[1]].key
        /\ \A q \in DOMAIN RunAt(p) :
            \E k \in 1..Len(SrcOf(p)) :
                /\ hist[SrcOf(p)[k]].q = q
                /\ hist[SrcOf(p)[k]].answer = RunAt(p)[q]
                /\ hist[SrcOf(p)[k]].model = models[p[1]].key

\* A run of one respondent was flushed by a record of another respondent,
\* which is now the current one.
C1_Witness ==
    /\ pc = "parse"
    /\ Len(models) >= 1
    /\ current_model # None
    /\ ~HasKey(models, current_model)
    /\ \E p \in StoredRuns : hist[Len(hist)].model # models[p[1]].key

\* ---- C2
\* \* ---- C2
\* The question numbers of the records read so far, in order.
HistQuestions == [i \in 1..Len(hist) |-> hist[i].q]

\* Every record read so far is of respondent m.
AllBy(m) == \A i \in 1..Len(hist) : hist[i].model = Str(m)

Returned == pc \in {"parsed", "done", "failed"}

\* C2: a record of question 1 arriving while the current run is not empty
\* closes the run and starts another, also when the respondent is the same:
\* no run (stored or current) holds a question-1 record anywhere but as its
\* first record; one respondent answering 1,2,3,1,2,3 gets two runs with
\* keys {1,2,3}; one respondent answering question 1 twice gets two runs of
\* one entry each, the first holding the first answer.
C2_QuestionOneStartsARun ==
    /\ SameShape
    /\ \A p \in StoredRuns :
        \A k \in 2..Len(SrcOf(p)) : hist[SrcOf(p)[k]].q # 1
    /\ \A k \in 2..Len(current_src) : hist[current_src[k]].q # 1
    /\ (Returned /\ AllBy(<<"A">>) /\ HistQuestions = <<1, 2, 3, 1, 2, 3>>)
        => /\ Len(models) = 1
           /\ Len(models[1].val) = 2
           /\ DOMAIN models[1].val[1] = {1, 2, 3}
           /\ DOMAIN models[1].val[2] = {1, 2, 3}
    /\ (Returned /\ AllBy(<<"A">>) /\ HistQuestions = <<1, 1>>)
        => /\ Len(models) = 1
           /\ models[1].val = <<[q \in {1} |-> hist[1].answer],
                                [q \in {1} |-> hist[2].answer]>>

\* One respondent has answered 1,2,3,1,2,3 and parse_results has returned
\* two runs.
C2_Witness ==
    /\ Returned
    /\ AllBy(<<"A">>)
    /\ HistQuestions = <<1, 2, 3, 1, 2, 3>>
    /\ Len(models[1].val) = 2
    /\ hist[1].answer # hist[4].answer

\* ---- C3
\* The respondents of the records read so far, in the order they first
\* appear.
AppendIfNew(xs, x) ==
    IF \E i \in 1..Len(xs) : xs[i] = x THEN xs ELSE Append(xs, x)

RECURSIVE FirstAppearance(_)
FirstAppearance(n) ==
    IF n = 0 THEN <<>> ELSE AppendIfNew(FirstAppearance(n - 1), hist[n].model)

\* The indexes in hist of the records of respondent m, ascending.
RECURSIVE RecordsOf(_, _)
RecordsOf(m, n) ==
    IF n = 0 THEN <<>>
    ELSE IF hist[n].model = m THEN Append(RecordsOf(m, n - 1), n)
    ELSE RecordsOf(m, n - 1)

RECURSIVE Flatten(_)
Flatten(xss) == IF xss = <<>> THEN <<>> ELSE Head(xss) \o Flatten(Tail(xss))

\* What the records at the indexes src leave in a run: the last answer of
\* each question.
RunOfRecords(src) ==
    IF src = <<>> THEN EmptyRun
    ELSE [q \in { hist[src[k]].q : k \in 1..Len(src) } |->
            hist[src[CHOOSE k \in 1..Len(src) :
                        /\ hist[src[k]].q = q
                        /\ \A l \in (k + 1)..Len(src) : hist[src[l]].q # q]].answer]

\* The loop of parse_results has not finished: the current run is not flushed.
InLoop == pc \in {"parse", "aborted"}

\* The current run is still to be flushed under a respondent with no run yet.
Pending == InLoop /\ current_model # None /\ ~HasKey(models, current_model)

\* C3: the respondents of the mapping are in the order of their first
\* appearance in the stream (the respondent of the run not yet flushed
\* coming last), and the runs of each respondent are in the order of the
\* stream: read one after the other, they are that respondent's records in
\* stream order, each run holding what its records leave.
C3_EncounterOrder ==
    /\ SameShape
    /\ (IF Pending THEN Append(Keys(models), current_model) ELSE Keys(models))
        = FirstAppearance(Len(hist))
    /\ \A i \in 1..Len(models) :
        Flatten(models_src[i].val)
            \o (IF InLoop /\ current_model = models[i].key THEN current_src ELSE <<>>)
        = RecordsOf(models[i].key, Len(hist))
    /\ \A p \in StoredRuns : RunAt(p) = RunOfRecords(SrcOf(p))

\* A, then B, then A again: parse_results has returned A with two runs
\* before B, the last run flushed at the end of the stream.
C3_Witness ==
    /\ pc = "parsed"
    /\ Len(hist) = 3
    /\ hist[1].model = hist[3].model
    /\ hist[1].model # hist[2].model
    /\ Keys(models) = <<hist[1].model, hist[2].model>>
    /\ Len(models[1].val) = 2
    /\ models_src[1].val = <<<<1>>, <<3>>>>


\* ---- C4
\* The points the scorer is to give question q of a run: those of its
\* answer, an absent question counting as "Maybe".
PointsAt(run, q) ==
    IF q \notin DOMAIN run THEN 10
    ELSE IF run[q] = AGREE THEN 20
    ELSE IF run[q] = MAYBE THEN 10
    ELSE 0

\* The run with every absent question of 1..10 answered "Maybe".
WithMaybes(run) ==
    [q \in DOMAIN run \cup (1..10) |-> IF q \in DOMAIN run THEN run[q] ELSE MAYBE]

\* The run without its keys outside 1..10.
InRange(run) == [q \in DOMAIN run \cap (1..10) |-> run[q]]

\* C4: calculate_run_scores returns x, the points of questions 1..5, and y,
\* the points of questions 6..10 (Agree 20, Maybe 10, Disagree 0, any other
\* label 0, an absent question 10); answering the absent questions "Maybe"
\* leaves the score unchanged, and so does dropping the keys outside 1..10;
\* an unrecognized label at an absent question lowers the score by 10.
C4_RunScores ==
    pc = "returned" =>
        /\ ret[1] = PointsAt(arg, 1) + PointsAt(arg, 2) + PointsAt(arg, 3)
                    + PointsAt(arg, 4) + PointsAt(arg, 5)
        /\ ret[2] = PointsAt(arg, 6) + PointsAt(arg, 7) + PointsAt(arg, 8)
                    + PointsAt(arg, 9) + PointsAt(arg, 10)
        /\ ret = calculate_run_scores(WithMaybes(arg))
        /\ ret = calculate_run_scores(InRange(arg))
        /\ \A q \in (1..10) \ DOMAIN arg :
            LET other == calculate_run_scores(RunSet(arg, q, UNSURE))
            IN  other[1] + other[2] = ret[1] + ret[2] - 10

\* "Agree" at questions 1..5 and questions 6..10 absent: x = 100, y = 50.
C4_Witness ==
    /\ pc = "returned"
    /\ arg = [q \in 1..5 |-> AGREE]
    /\ ret = <<100, 50>>

\* ---- C5
\* What a run holds at question q: <<answer>>, or <<>> when q is absent.
HeldAt(run, q) == IF q \in DOMAIN run THEN <<run[q]>> ELSE <<>>

\* The questions of 1..10 at which the runs do not all hold the same value.
VaryingQuestions(runs) ==
    { q \in 1..10 :
        \E i \in 1..Len(runs), j \in 1..Len(runs) : HeldAt(runs[i], q) # HeldAt(runs[j], q) }

\* C5: analyze_consistency returns (True, 0, []) for 0 or 1 runs; for more
\* runs its count is the number of questions of 1..10 at which the runs do
\* not all hold the same value (absent being a value of its own, different
\* from "Maybe"), its list holds exactly those questions, ascending, each
\* with the answers of the runs in run order, and it reports consistency
\* exactly when the count is 0.
C5_Consistency ==
    pc = "returned" =>
        IF Len(arg) <= 1 THEN ret = <<TRUE, 0, <<>>>>
        ELSE /\ ret[2] = Cardinality(VaryingQuestions(arg))
             /\ ret[1] = (ret[2] = 0)
             /\ Len(ret[3]) = ret[2]
             /\ { ret[3][k][1] : k \in 1..Len(ret[3]) } = VaryingQuestions(arg)
             /\ \A k \in 1..(Len(ret[3]) - 1) : ret[3][k][1] < ret[3][k + 1][1]
             /\ \A k \in 1..Len(ret[3]) :
                 ret[3][k][2] = [i \in 1..Len(arg) |-> HeldAt(arg[i], ret[3][k][1])]

\* Three runs that differ at questions 1 and 10, one of them by holding
\* "Maybe" where another holds nothing.
C5_Witness ==
    /\ pc = "returned"
    /\ Len(arg) = 3
    /\ ret[2] = 2
    /\ ~ret[1]
    /\ 1 \notin DOMAIN arg[1]
    /\ 1 \in DOMAIN arg[2] /\ arg[2][1] = MAYBE
    /\ HeldAt(arg[3], 1) = HeldAt(arg[2], 1)

\* ---- C6
\* C6: reading a row whose field count is not 3 leaves the segmenter as it
\* was (the mapping, the current run, the current respondent) and the
\* program running, so the rows that follow are handled as if the row had
\* not been there.
C6_MalformedRowSkipped ==
    [][(nread' = nread + 1 /\ Len(row') # 3)
        => (UNCHANGED <<models, current_run, current_model, hist_vars>> /\ pc' = pc)]_vars

\* A row of another field count has just been read as the third row, after
\* two records of which the first is flushed and the second is the current
\* run, which is still there.
C6_Witness ==
    /\ pc = "parse"
    /\ Len(row) # 3
    /\ nread = 3
    /\ Len(hist) = 2
    /\ Len(models) = 1
    /\ current_src = <<2>>
    /\ DOMAIN current_run = {hist[2].q}

\* ---- C7
\* The row has three fields and its question number is no number.
NonNumericQuestion(r) == Len(r) = 3 /\ ~int(strip(r[2])).ok

\* C7: a 3-field row with a non-numeric question number aborts the program
\* with nothing of the report emitted, whatever was read before it; the
\* program aborts in parse_results for no other row: a row of another field
\* count is skipped even when its second field is no number.
C7_NonNumericAborts ==
    /\ NonNumericQuestion(row) =>
        /\ pc = "aborted"
        /\ exc = "ValueError"
        /\ out = <<>>
        /\ consistency_results = EmptyDict
        /\ scores = EmptyDict
    /\ pc = "aborted" => NonNumericQuestion(row) /\ out = <<>>
    /\ (Len(row) # 3 /\ nread > 0) => pc # "aborted" /\ exc # "ValueError"

\* The program aborted after two records and a skipped row.
C7_Witness ==
    /\ pc = "aborted"
    /\ Len(hist) = 2
    /\ nread = 4
    /\ Len(models) = 1

\* ---- C8
\* The question numbers of the records read so far.
QuestionsRead == { hist[i].q : i \in 1..Len(hist) }

\* C8 as claimed: the keys of every run, stored or current, are in 1..10.
C8_KeysWithinOneToTen ==
    /\ DOMAIN current_run \subseteq 1..10
    /\ \A p \in StoredRuns : DOMAIN RunAt(p) \subseteq 1..10

\* C8, amended: the keys of every run, stored or current, are exactly the
\* question numbers of the records that went into it, whatever integers
\* those are; so they are within 1..10 when the question numbers of all
\* records read are.
C8_KeysAreQuestionsRead ==
    /\ SameShape
    /\ DOMAIN current_run = { hist[current_src[k]].q : k \in 1..Len(current_src) }
    /\ \A p \in StoredRuns :
        DOMAIN RunAt(p) = { hist[SrcOf(p)[k]].q : k \in 1..Len(SrcOf(p)) }
    /\ QuestionsRead \subseteq 1..10 =>
        /\ DOMAIN current_run \subseteq 1..10
        /\ \A p \in StoredRuns : DOMAIN RunAt(p) \subseteq 1..10

\* parse_results has returned a run holding question 11 beside question 1.
C8_Witness ==
    /\ pc = "parsed"
    /\ \E p \in StoredRuns : DOMAIN RunAt(p) = {1, 11}

\* ---- C10
\* C10: the current respondent is defined whenever the current run is not
\* empty; no run is stored under None, no stored run is empty, every
\* respondent of the mapping has at least one run; main never divides by
\* zero, and a finished report holds an average for every respondent.
C10_NoEmptyRunNoUndefinedRespondent ==
    /\ current_run # EmptyRun => current_model # None
    /\ \A i \in 1..Len(models) :
        /\ models[i].key # None
        /\ Len(models[i].val) >= 1
        /\ \A j \in 1..Len(models[i].val) : DOMAIN models[i].val[j] # {}
    /\ exc # "ZeroDivisionError"
    /\ pc = "done" => Keys(scores) = Keys(models)

\* The report is finished for two respondents, one of them with two runs.
C10_Witness ==
    /\ pc = "done"
    /\ Len(models) = 2
    /\ \E i \in 1..2 : Len(models[i].val) = 2
    /\ Len(scores) = 2

\* ---- C9
\* The disagreement count of the i-th respondent of the mapping.
DisagreementCount(i) == analyze_consistency(models[i].val)[2]

\* The first respondent among those with the least disagreement count.
FirstOfLeastCount ==
    models[CHOOSE i \in 1..Len(models) :
        /\ \A k \in 1..Len(models) : DisagreementCount(i) <= DisagreementCount(k)
        /\ \A k \in 1..(i - 1) : DisagreementCount(k) > DisagreementCount(i)].key

\* The last respondent among those with the greatest disagreement count.
LastOfGreatestCount ==
    models[CHOOSE i \in 1..Len(models) :
        /\ \A k \in 1..Len(models) : DisagreementCount(i) >= DisagreementCount(k)
        /\ \A k \in (i + 1)..Len(models) : DisagreementCount(k) < DisagreementCount(i)].key

\* C9: given at least one respondent, the report names as most consistent
\* the first-encountered respondent among those with the least disagreement
\* count, and as least consistent the last-encountered respondent among
\* those with the greatest.
C9_MostAndLeastConsistent ==
    (pc \in {"done", "failed"} /\ Len(models) >= 1) =>
        /\ most_consistent = FirstOfLeastCount
        /\ least_consistent = LastOfGreatestCount

\* The ranking of a report that gets as far as line 92 is the claimed one.
RankingWhenReached ==
    (pc \in {"done", "failed"} /\ Len(models) >= 1 /\ exc # "TypeError") =>
        /\ pc = "done"
        /\ most_consistent = FirstOfLeastCount
        /\ least_consistent = LastOfGreatestCount

\* main raised TypeError at line 88 with respondents to rank.
RankingNotReached ==
    /\ pc = "failed"
    /\ exc = "TypeError"
    /\ Len(models) >= 1
    /\ most_consistent = None

====
